---- MODULE Spec2Model ----
(***************************************************************************)
(* bstt: University of Bristol timetable viewer (src/src/main.rs).         *)
(*                                                                         *)
(* The model covers run(), the join of the fetch thread, the two display   *)
(* functions display_mini_timetable and display_timetable with their       *)
(* filter-and-sort step, and the text compactor compress_title /           *)
(* compress_location.  Strings are TLA+ strings handled with Len, SubSeq   *)
(* and \o, so that substring replacement, RFC3339 parsing, "%H:%M"         *)
(* formatting and the byte-wise comparison of the raw start strings are    *)
(* computed the way the code computes them.  Instants are seconds since    *)
(* 2024-01-01T00:00:00Z.                                                   *)
(***************************************************************************)
EXTENDS Integers, Sequences, FiniteSets, TLC

VARIABLES
    mini,          \* cli.mini
    day_offset,    \* cli.day_offset (a string, parsed in run)
    upstream,      \* the event list the server would return
    now,           \* the wall clock, Local::now(), as an instant
    tz,            \* the offset of the Local timezone, in seconds
    pc,            \* "fetching", "exited"; "polling", "polled"; "compact"
    fetch,         \* result of the fetch thread: "pending", "ok", "err"
    ticks,         \* spinner ticks drawn while the fetch thread runs
    selected_date,   \* the date selected: today (mini) or target_date (full)
    selected,      \* todays_events / daily_events after filter and sort
    stdout,        \* what was printed to stdout, one string per print
    table,         \* rows added to the comfy_table Table
    stderr,        \* what was printed to stderr
    exit_code,     \* process exit code once pc = "exited"
    input,         \* text compactor: the string given to the compactor
    kind,          \* text compactor: "title" or "location"
    stage1,        \* text compactor: the title after the compound rules
    passes,        \* text compactor: the successive outputs
    last           \* polling: the clock reading and the output of the previous poll

vars == <<mini, day_offset, upstream, now, tz, pc, fetch, ticks, selected_date,
          selected, stdout, table, stderr, exit_code, input, kind, stage1, passes, last>>

-----------------------------------------------------------------------------
(* Bounds of the model *)

MaxEvents == 2      \* longest event list drawn for the server's answer
MaxTicks == 1       \* spinner ticks before the fetch thread finishes
MaxWords == 3       \* fragments joined into one compactor input
MaxPasses == 2      \* times the compactor is applied to its own output

-----------------------------------------------------------------------------
(* Strings *)

\* F applied to the value of v: a local binding whose value is computed once
Let(v, F(_)) == CHOOSE r \in {F(x) : x \in {v}} : TRUE

Min(S) == CHOOSE m \in S : \A n \in S : m <= n

\* positions at or after `from` where `find` occurs in s
Matches(s, find, from) ==
    {i \in from..(Len(s) - Len(find) + 1) : SubSeq(s, i, i + Len(find) - 1) = find}

\* str::replace: every non-overlapping occurrence, scanning left to right
RECURSIVE ReplaceFrom(_, _, _, _)
ReplaceFrom(s, from, find, rep) ==
    Let(Matches(s, find, from), LAMBDA ms :
        IF ms = {} THEN SubSeq(s, from, Len(s))
        ELSE Let(Min(ms), LAMBDA i :
                 SubSeq(s, from, i - 1) \o rep
                 \o ReplaceFrom(s, i + Len(find), find, rep)))

replace(s, find, rep) == Let(s, LAMBDA x : ReplaceFrom(x, 1, find, rep))

ends_with(s, suf) ==
    Len(suf) <= Len(s) /\ SubSeq(s, Len(s) - Len(suf) + 1, Len(s)) = suf

starts_with(s, pre) ==
    Len(pre) <= Len(s) /\ SubSeq(s, 1, Len(pre)) = pre

contains(s, find) == Matches(s, find, 1) # {}

Upper == "ABCDEFGHIJKLMNOPQRSTUVWXYZ"
Lower == "abcdefghijklmnopqrstuvwxyz"

LowerChar(c) ==
    IF \E i \in 1..Len(Upper) : SubSeq(Upper, i, i) = c
    THEN LET i == CHOOSE j \in 1..Len(Upper) : SubSeq(Upper, j, j) = c
         IN SubSeq(Lower, i, i)
    ELSE c

RECURSIVE to_lowercase(_)
to_lowercase(s) ==
    IF Len(s) = 0 THEN ""
    ELSE LowerChar(SubSeq(s, 1, 1)) \o to_lowercase(SubSeq(s, 2, Len(s)))

IsWhitespace(c) == c \in {" ", "\t", "\n", "\r"}

\* the words of s from position `from` on, each a maximal run of non-whitespace
RECURSIVE SplitFrom(_, _)
SplitFrom(s, from) ==
    Let({i \in from..Len(s) : ~IsWhitespace(SubSeq(s, i, i))}, LAMBDA starts :
        IF starts = {} THEN << >>
        ELSE Let(Min(starts), LAMBDA b :
             Let({i \in b..Len(s) : IsWhitespace(SubSeq(s, i, i))}, LAMBDA stops :
             Let(IF stops = {} THEN Len(s) + 1 ELSE Min(stops), LAMBDA e :
                 <<SubSeq(s, b, e - 1)>> \o SplitFrom(s, e)))))

split_whitespace(s) == Let(s, LAMBDA x : SplitFrom(x, 1))

RECURSIVE join(_, _)
join(words, sep) ==
    IF Len(words) = 0 THEN ""
    ELSE IF Len(words) = 1 THEN words[1]
    ELSE words[1] \o sep \o join(Tail(words), sep)

-----------------------------------------------------------------------------
(* Text compactor *)

RECURSIVE ApplyFrom(_, _, _)
ApplyFrom(s, rules, k) ==
    IF k > Len(rules) THEN s
    ELSE Let(replace(s, rules[k][1], rules[k][2]), LAMBDA x : ApplyFrom(x, rules, k + 1))

apply_transformations(s, rules) == ApplyFrom(s, rules, 1)

compound_rules == <<
    <<"Software Engineering", "SE">>, <<"Data Structures", "DS">>, <<"Intro to AI", "AI">>,
    <<"Practical Physics-Computing Lecture", "Labs-Comp Lec">>,
    <<"Practical Physics-Computing Drop-in", "Labs-Comp DI">>,
    <<"Probability & Statistics for Physicists", "Prob+Stats P">>,
    <<"Introductory Mathematics for Physics", "Intro M for P">>,
    <<"Intro to Coding and Data Analysis", "Coding+D.A.">>,
    <<"Core Physics I Problem Class", "Core P PrbCls">>,
    <<"Intro Mathematics Examples Class", "Intro M ExCls">>,
    <<"Practical Physics", "Labs">>, <<"Problem Class", "PrbCls">> >>

atomic_rules == <<
    <<"Introductory", "Intro">>, <<"Introduction", "Intro">>, <<"Mathematics", "M">>,
    <<"Physics", "P">>, <<"Probability", "Prob">>, <<"Statistics", "Stats">>,
    <<"Computing", "Comp">>, <<"Lecture", "Lec">>, <<"Tutorial", "Tut">>,
    <<"Workshop", "W">>, <<"Project", "Proj">>, <<"Assembly", "Asmbly">> >>

symbol_rules == <<
    <<" and ", " + ">>, <<" & ", " + ">>, <<" for ", " ">>, <<" of ", " ">>,
    <<" to ", " ">> >>

numerals == <<" V", " IV", " III", " II", " I">>

\* the loop over numerals: strip the first suffix that matches, then break
RECURSIVE StripNumeral(_, _)
StripNumeral(s, k) ==
    IF k > Len(numerals) THEN s
    ELSE IF ends_with(s, numerals[k]) THEN SubSeq(s, 1, Len(s) - Len(numerals[k]))
         ELSE StripNumeral(s, k + 1)

\* a variant of the first stage: the atomic rules run ahead of the compound rules
CompoundStage_AtomicFirst(title) ==
    apply_transformations(apply_transformations(title, atomic_rules), compound_rules)

CompoundStage(title) == apply_transformations(title, compound_rules)

\* the stages after the compound rules
AfterCompound(t1) ==
    Let(apply_transformations(t1, atomic_rules), LAMBDA t2 :
    Let(apply_transformations(t2, symbol_rules), LAMBDA t3 :
    Let(StripNumeral(t3, 1), LAMBDA t4 :
    Let(SelectSeq(split_whitespace(t4),
                  LAMBDA word : ~starts_with(to_lowercase(word), "grp")), LAMBDA words :
        join(words, " ")))))

compress_title(title) == Let(CompoundStage(title), LAMBDA t1 : AfterCompound(t1))

location_rules == <<
    <<"Physics Building", "Phys">>, <<"Priory Road Complex", "PrioryRd">>,
    <<"Biomedical Sciences Building", "BioSci">>,
    <<"31-37 St. Michael's Hill", "StMichHill">>,
    <<"Queen's Building", "Queens">>, <<"Chemistry Building", "Chem">>,
    <<"Fry Building", "Fry">>, <<"Lecture Theatre", "LT">>, <<"Building", "Bldg">>,
    <<"Complex", "Cmplx">>, <<" Room", "">>, <<"Rear:", "">>, <<": ", ":">> >>

compress_location(location) == apply_transformations(location, location_rules)

-----------------------------------------------------------------------------
(* Time: chrono's DateTime::parse_from_rfc3339, with_timezone(&Local),       *)
(* date_naive and format                                                     *)

DigitChars == "0123456789"

IsDigit(c) == \E i \in 1..10 : SubSeq(DigitChars, i, i) = c

DigitVal(c) == (CHOOSE i \in 1..10 : SubSeq(DigitChars, i, i) = c) - 1

AllDigits(s, i, n) == \A k \in i..(i + n - 1) : IsDigit(SubSeq(s, k, k))

RECURSIVE Num(_, _, _)
Num(s, i, n) ==
    IF n = 0 THEN 0
    ELSE Num(s, i, n - 1) * 10 + DigitVal(SubSeq(s, i + n - 1, i + n - 1))

IsLeap(y) == (y % 4 = 0 /\ y % 100 # 0) \/ y % 400 = 0

DaysInMonth(y, m) ==
    IF m = 2 THEN (IF IsLeap(y) THEN 29 ELSE 28)
    ELSE IF m \in {4, 6, 9, 11} THEN 30 ELSE 31

SecondsPerDay == 86400

\* days from 1970-01-01 to 2024-01-01, the origin of the model's instants
EpochDays == 19723

\* days since 1970-01-01 of a civil date
DaysFromCivil(y, m, d) ==
    LET yy == IF m <= 2 THEN y - 1 ELSE y
        era == yy \div 400
        yoe == yy - era * 400
        mp == IF m > 2 THEN m - 3 ELSE m + 9
        doy == (153 * mp + 2) \div 5 + d - 1
        doe == yoe * 365 + yoe \div 4 - yoe \div 100 + doy
    IN era * 146097 + doe - 719468

\* the civil date <<y, m, d>> of a day number counted from 1970-01-01
CivilFromDays(z0) ==
    LET z == z0 + 719468
        era == z \div 146097
        doe == z - era * 146097
        yoe == (doe - doe \div 1460 + doe \div 36524 - doe \div 146096) \div 365
        doy == doe - (365 * yoe + yoe \div 4 - yoe \div 100)
        mp == (5 * doy + 2) \div 153
        d == doy - (153 * mp + 2) \div 5 + 1
        m == IF mp < 10 THEN mp + 3 ELSE mp - 9
        y == yoe + era * 400 + (IF m <= 2 THEN 1 ELSE 0)
    IN <<y, m, d>>

Unparseable == [ok |-> FALSE, t |-> 0]

\* "YYYY-MM-DDTHH:MM:SS" followed by "Z" or by "+HH:MM" / "-HH:MM"; anything else
\* the model draws is rejected.  The result is the instant the text denotes.
parse_from_rfc3339(s) ==
    LET n == Len(s)
        shape ==
            /\ n \in {20, 25}
            /\ AllDigits(s, 1, 4) /\ SubSeq(s, 5, 5) = "-"
            /\ AllDigits(s, 6, 2) /\ SubSeq(s, 8, 8) = "-"
            /\ AllDigits(s, 9, 2) /\ SubSeq(s, 11, 11) \in {"T", "t", " "}
            /\ AllDigits(s, 12, 2) /\ SubSeq(s, 14, 14) = ":"
            /\ AllDigits(s, 15, 2) /\ SubSeq(s, 17, 17) = ":"
            /\ AllDigits(s, 18, 2)
            /\ IF n = 20 THEN SubSeq(s, 20, 20) \in {"Z", "z"}
               ELSE /\ SubSeq(s, 20, 20) \in {"+", "-"}
                    /\ AllDigits(s, 21, 2) /\ SubSeq(s, 23, 23) = ":"
                    /\ AllDigits(s, 24, 2)
    IN IF ~shape THEN Unparseable
       ELSE LET y == Num(s, 1, 4)
                mo == Num(s, 6, 2)
                d == Num(s, 9, 2)
                h == Num(s, 12, 2)
                mi == Num(s, 15, 2)
                sec == Num(s, 18, 2)
                oh == IF n = 25 THEN Num(s, 21, 2) ELSE 0
                om == IF n = 25 THEN Num(s, 24, 2) ELSE 0
                sign == IF n = 25 /\ SubSeq(s, 20, 20) = "-" THEN -1 ELSE 1
                valid == /\ mo \in 1..12 /\ d >= 1 /\ d <= DaysInMonth(y, mo)
                         /\ h <= 23 /\ mi <= 59 /\ sec <= 60
                         /\ oh <= 23 /\ om <= 59
            IN IF ~valid THEN Unparseable
               ELSE [ok |-> TRUE,
                     t |-> (DaysFromCivil(y, mo, d) - EpochDays) * SecondsPerDay
                           + h * 3600 + mi * 60 + sec
                           - sign * (oh * 3600 + om * 60)]

\* with_timezone(&Local).date_naive(): the local day number, counted from 2024-01-01
date_naive(t, offset) == (t + offset) \div SecondsPerDay

Digit(n) == SubSeq(DigitChars, n + 1, n + 1)

Digits2(n) == Digit(n \div 10) \o Digit(n % 10)

Digits4(n) == Digits2(n \div 100) \o Digits2(n % 100)

\* with_timezone(&Local).format("%H:%M")
FormatHM(t, offset) ==
    LET s == (t + offset) % SecondsPerDay
    IN Digits2(s \div 3600) \o ":" \o Digits2((s % 3600) \div 60)

WeekdayNames ==
    <<"Thursday", "Friday", "Saturday", "Sunday", "Monday", "Tuesday", "Wednesday">>

MonthNames ==
    <<"January", "February", "March", "April", "May", "June", "July", "August",
      "September", "October", "November", "December">>

\* NaiveDate::format("%A, %d %B %Y") of a local day number
FormatDate(day) ==
    LET z == day + EpochDays
        c == CivilFromDays(z)
    IN WeekdayNames[(z % 7) + 1] \o ", " \o Digits2(c[3]) \o " "
       \o MonthNames[c[2]] \o " " \o Digits4(c[1])

-----------------------------------------------------------------------------
(* The inputs the model draws *)

EndAt10 == "2024-01-01T10:00:00Z"
EndAt11 == "2024-01-01T11:00:00+00:00"
EndMalformed == ""

\* what the timetable offers: the fields of an Event, with the end strings drawn.
\* The second slot can end before it starts (10:15 to 10:00).
Slots == {
    [title |-> "Practical Physics-Computing Lecture", event_type |-> "Lecture",
     location |-> "Physics Building: Room 3.21",
     teacher_name |-> <<" Dr A Smith, Dr B Jones">>,
     start |-> "2024-01-01T09:00:00+00:00", ends |-> {EndAt10, EndMalformed}],
    [title |-> "Core Physics I Problem Class Grp 3", event_type |-> "Problem Class",
     location |-> "Fry Building Lecture Theatre", teacher_name |-> << >>,
     start |-> "2024-01-01T10:15:00+00:00", ends |-> {EndAt10, EndAt11}],
    \* 09:30 UTC: later as a string than "2024-01-01T10:15:00+00:00", earlier in time
    [title |-> "Intro to AI", event_type |-> "Lecture",
     location |-> "Queen's Building: Rear: 1.07", teacher_name |-> <<"">>,
     start |-> "2024-01-01T10:30:00+01:00", ends |-> {EndAt11}],
    \* 23:30 UTC on 1 January: the local date depends on the Local offset
    [title |-> "Probability & Statistics for Physicists II", event_type |-> "Tutorial",
     location |-> "Chemistry Building", teacher_name |-> <<"Prof C Brown">>,
     start |-> "2024-01-02T00:30:00+01:00", ends |-> {EndAt11}],
    [title |-> "Workshop", event_type |-> "Workshop", location |-> "Priory Road Complex",
     teacher_name |-> << >>, start |-> "tomorrow 9am", ends |-> {EndAt11}] }

Event(s, e) ==
    [title |-> s.title, event_type |-> s.event_type, start |-> s.start, end |-> e,
     location |-> s.location, teacher_name |-> s.teacher_name]

Events == UNION {{Event(s, e) : e \in s.ends} : s \in Slots}

EventLists == UNION {[1..n -> Events] : n \in 0..MaxEvents}

\* 08:59, 09:00, 09:49, 09:50, 10:00, 10:15 and 23:20 UTC on 2024-01-01
Nows == {32340, 32400, 35340, 35400, 36000, 36900, 84000}

\* clock readings drawn for the full view, where only the local date matters
FullNows == {32400, 84000}

\* Local is UTC or UTC+1
Offsets == {0, 3600}

DayOffsets == {"0", "1", "-1", "x"}

\* str::parse::<i64>: an optional sign and digits
parse_i64(s) ==
    LET signed == Len(s) > 0 /\ SubSeq(s, 1, 1) \in {"+", "-"}
        body == IF signed THEN SubSeq(s, 2, Len(s)) ELSE s
    IN IF Len(body) = 0 \/ ~AllDigits(body, 1, Len(body)) THEN [ok |-> FALSE, v |-> 0]
       ELSE [ok |-> TRUE,
             v |-> IF signed /\ SubSeq(s, 1, 1) = "-" THEN 0 - Num(body, 1, Len(body))
                   ELSE Num(body, 1, Len(body))]

-----------------------------------------------------------------------------
(* Tables of the parser's and the compactor's results on the drawn strings; *)
(* a string outside a table is computed directly                            *)

ParseTable ==
    [s \in {e.start : e \in Events} \cup {e.end : e \in Events} |-> parse_from_rfc3339(s)]

TitleTable == [s \in {e.title : e \in Events} |-> compress_title(s)]

LocationTable == [s \in {e.location : e \in Events} |-> compress_location(s)]

Parsed(s) == IF s \in DOMAIN ParseTable THEN ParseTable[s] ELSE parse_from_rfc3339(s)

CompressedTitle(s) == IF s \in DOMAIN TitleTable THEN TitleTable[s] ELSE compress_title(s)

CompressedLocation(s) ==
    IF s \in DOMAIN LocationTable THEN LocationTable[s] ELSE compress_location(s)

-----------------------------------------------------------------------------
(* Day selector: the filter and the sort_by of both display functions *)

\* the bytes that occur in the start strings that parse, in byte order
ByteOrder == " +-.0123456789:TZtz"

Ord(c) == CHOOSE i \in 1..Len(ByteOrder) : SubSeq(ByteOrder, i, i) = c

\* String::cmp, byte-wise lexicographic: -1, 0 or 1
cmp(a, b) ==
    LET n == IF Len(a) < Len(b) THEN Len(a) ELSE Len(b)
        diff == {i \in 1..n : SubSeq(a, i, i) # SubSeq(b, i, i)}
    IN IF diff = {}
       THEN (IF Len(a) < Len(b) THEN -1 ELSE IF Len(a) > Len(b) THEN 1 ELSE 0)
       ELSE LET i == Min(diff)
            IN IF Ord(SubSeq(a, i, i)) < Ord(SubSeq(b, i, i)) THEN -1 ELSE 1

\* the closure of filter: start parses and its local date is the target date
OnDate(event, date, offset) ==
    LET start_time == Parsed(event.start)
    IN IF start_time.ok THEN date_naive(start_time.t, offset) = date ELSE FALSE

\* e inserted after every element that does not compare greater (stable)
RECURSIVE InsertSorted(_, _)
InsertSorted(sorted, e) ==
    IF Len(sorted) = 0 THEN <<e>>
    ELSE IF cmp(e.start, sorted[Len(sorted)].start) >= 0 THEN Append(sorted, e)
    ELSE Let(InsertSorted(SubSeq(sorted, 1, Len(sorted) - 1), e), LAMBDA front :
             Append(front, sorted[Len(sorted)]))

\* sort_by(|a, b| a.start.cmp(&b.start)), a stable sort
RECURSIVE SortByStart(_)
SortByStart(list) ==
    IF Len(list) = 0 THEN << >>
    ELSE Let(SortByStart(SubSeq(list, 1, Len(list) - 1)), LAMBDA sorted :
             InsertSorted(sorted, list[Len(list)]))

\* a variant of the day selector: the filter without the sort
DaySelect_Unsorted(events, date, offset) ==
    SelectSeq(events, LAMBDA event : OnDate(event, date, offset))

DaySelect(events, date, offset) ==
    Let(SelectSeq(events, LAMBDA event : OnDate(event, date, offset)), LAMBDA list :
        SortByStart(list))

-----------------------------------------------------------------------------
(* Mini-mode display *)

BorderSeconds == 600     \* Duration::minutes(10)

Panicked == -1           \* an unwrap() on an Err

\* todays_events.iter().find(..) for the current event: the index of the first
\* event with start <= now < end, 0 for None, Panicked when the scan unwraps an
\* end that does not parse
RECURSIVE FindCurrent(_, _, _)
FindCurrent(list, k, t) ==
    IF k > Len(list) THEN 0
    ELSE Let(Parsed(list[k].start), LAMBDA start_time :
         Let(Parsed(list[k].end), LAMBDA end_time :
             IF ~start_time.ok \/ ~end_time.ok THEN Panicked
             ELSE IF t >= start_time.t /\ t < end_time.t THEN k
             ELSE FindCurrent(list, k + 1, t)))

\* a variant of the search for the next event: the comparison reversed
RECURSIVE FindNext_Reversed(_, _, _)
FindNext_Reversed(list, k, t) ==
    IF k > Len(list) THEN 0
    ELSE Let(Parsed(list[k].start), LAMBDA start_time :
             IF ~start_time.ok THEN Panicked
             ELSE IF start_time.t < t THEN k
             ELSE FindNext_Reversed(list, k + 1, t))

\* todays_events.iter().find(..) for the next event: first event with start > now
RECURSIVE FindNext(_, _, _)
FindNext(list, k, t) ==
    IF k > Len(list) THEN 0
    ELSE Let(Parsed(list[k].start), LAMBDA start_time :
             IF ~start_time.ok THEN Panicked
             ELSE IF start_time.t > t THEN k
             ELSE FindNext(list, k + 1, t))

CurLine(current, offset) ==
    "CUR " \o CompressedTitle(current.title) \o " | "
    \o CompressedLocation(current.location)
    \o " END " \o FormatHM(Parsed(current.end).t, offset)

NxtLine(next, offset) ==
    "NXT " \o CompressedTitle(next.title) \o " | " \o CompressedLocation(next.location)
    \o " @ " \o FormatHM(Parsed(next.start).t, offset)

BrdLine(current, next, offset) ==
    "BRD " \o FormatHM(Parsed(current.end).t, offset) \o "→"
    \o FormatHM(Parsed(next.start).t, offset) \o " | "
    \o CompressedTitle(next.title) \o " @ " \o CompressedLocation(next.location)

\* the function's result: the list it selected, what it printed, whether it panicked
MiniLine(todays_events, c, n, t, offset) ==
    IF c # 0
    THEN LET current == todays_events[c]
             end_time == Parsed(current.end).t
             border_time == end_time - BorderSeconds
         IN IF t >= border_time
            THEN IF n # 0 THEN BrdLine(current, todays_events[n], offset)
                 ELSE CurLine(current, offset)
            ELSE CurLine(current, offset)
    ELSE IF n # 0 THEN NxtLine(todays_events[n], offset)
    ELSE "TTB: BLK"

display_mini_timetable(events, t, offset) ==
    Let(DaySelect(events, date_naive(t, offset), offset), LAMBDA todays_events :
    Let(FindCurrent(todays_events, 1, t), LAMBDA c :
    Let(IF c = Panicked THEN Panicked ELSE FindNext(todays_events, 1, t), LAMBDA n :
        IF c = Panicked \/ n = Panicked
        THEN [selected |-> todays_events, out |-> << >>, panicked |-> TRUE]
        ELSE [selected |-> todays_events, panicked |-> FALSE,
              out |-> <<MiniLine(todays_events, c, n, t, offset)>>])))

-----------------------------------------------------------------------------
(* Full timetable display *)

\* trim(): leading and trailing whitespace removed
RECURSIVE trim(_)
trim(s) ==
    IF Len(s) = 0 THEN s
    ELSE IF IsWhitespace(SubSeq(s, 1, 1)) THEN trim(SubSeq(s, 2, Len(s)))
    ELSE IF IsWhitespace(SubSeq(s, Len(s), Len(s))) THEN trim(SubSeq(s, 1, Len(s) - 1))
    ELSE s

\* teacher_name.as_deref().unwrap_or("").split(',').next().unwrap_or("").trim();
\* an Option is a sequence of length 0 or 1
main_lecturer(teacher_name) ==
    LET s == IF Len(teacher_name) = 0 THEN "" ELSE teacher_name[1]
        commas == Matches(s, ",", 1)
        first == IF commas = {} THEN s ELSE SubSeq(s, 1, Min(commas) - 1)
    IN trim(first)

day_label(day_diff) ==
    IF day_diff = 0 THEN " (Today)"
    ELSE IF day_diff = 1 THEN " (Tomorrow)"
    ELSE IF day_diff = -1 THEN " (Yesterday)"
    ELSE ""

TableRow(event, offset) ==
    <<FormatHM(Parsed(event.start).t, offset) \o " - "
      \o FormatHM(Parsed(event.end).t, offset),
      event.event_type, event.title, event.location, main_lecturer(event.teacher_name)>>

\* the rows added before the loop ends or an unwrap() panics
RECURSIVE AddRows(_, _, _)
AddRows(list, k, offset) ==
    IF k > Len(list) THEN [rows |-> << >>, panicked |-> FALSE]
    ELSE IF ~Parsed(list[k].start).ok \/ ~Parsed(list[k].end).ok
    THEN [rows |-> << >>, panicked |-> TRUE]
    ELSE Let(AddRows(list, k + 1, offset), LAMBDA rest :
             [rows |-> <<TableRow(list[k], offset)>> \o rest.rows,
              panicked |-> rest.panicked])

TablePrinted == "<table>"     \* println!("{}", table)

\* t is the clock read inside the function (for the day label)
display_timetable(events, target_date, t, offset) ==
    Let(DaySelect(events, target_date, offset), LAMBDA daily_events :
    Let(" Timetable for " \o FormatDate(target_date)
        \o day_label(target_date - date_naive(t, offset)), LAMBDA header :
        IF Len(daily_events) = 0
        THEN [selected |-> daily_events, rows |-> << >>, panicked |-> FALSE,
              out |-> <<header, "\nNo events scheduled for this day.">>]
        ELSE Let(AddRows(daily_events, 1, offset), LAMBDA r :
                 [selected |-> daily_events, rows |-> r.rows, panicked |-> r.panicked,
                  out |-> IF r.panicked THEN <<header>> ELSE <<header, TablePrinted>>])))

-----------------------------------------------------------------------------
(* run() and main() *)

ExitOk == 0          \* main returns
ExitError == 1       \* std::process::exit(1)
ExitPanic == 101     \* a panic unwinds out of main

NoPoll == [now |-> 0, out |-> << >>, polled |-> FALSE]

CompactorIdle ==
    input = "" /\ kind = "none" /\ stage1 = "" /\ passes = << >> /\ last = NoPoll

\* cli parsed, config loaded, the fetch thread spawned
Init ==
    /\ mini \in BOOLEAN
    /\ day_offset \in (IF mini THEN {"0"} ELSE DayOffsets)
    /\ upstream \in EventLists
    /\ now \in (IF mini THEN Nows ELSE FullNows)
    /\ tz \in Offsets
    /\ pc = "fetching"
    /\ fetch = "pending"
    /\ ticks = 0
    /\ selected_date = 0
    /\ selected = << >>
    /\ stdout = << >>
    /\ table = << >>
    /\ stderr = << >>
    /\ exit_code = ExitOk
    /\ CompactorIdle

\* while !handle.is_finished() { spinner.tick(); sleep }, only when not mini
SpinnerTick ==
    /\ pc = "fetching" /\ ~mini /\ fetch = "pending" /\ ticks < MaxTicks
    /\ ticks' = ticks + 1
    /\ UNCHANGED <<mini, day_offset, upstream, now, tz, pc, fetch, selected_date,
                   selected, stdout, table, stderr, exit_code, input, kind, stage1,
                   passes, last>>

\* fetch_events returns Ok(data)
FetchOk ==
    /\ pc = "fetching" /\ fetch = "pending"
    /\ fetch' = "ok"
    /\ UNCHANGED <<mini, day_offset, upstream, now, tz, pc, ticks, selected_date,
                   selected, stdout, table, stderr, exit_code, input, kind, stage1,
                   passes, last>>

\* fetch_events returns Err: the request failed, a non-success status, or the body
\* does not decode (a missing start or end field among the causes)
FetchErr ==
    /\ pc = "fetching" /\ fetch = "pending"
    /\ fetch' = "err"
    /\ UNCHANGED <<mini, day_offset, upstream, now, tz, pc, ticks, selected_date,
                   selected, stdout, table, stderr, exit_code, input, kind, stage1,
                   passes, last>>

\* a variant of the Err arm: the error is returned in both modes
RunErrResult_Propagate(m) == [out |-> << >>, ok |-> FALSE]

\* what run returns on Err(e): [printed to stdout, returned Ok]
RunErrResult(m) ==
    IF m THEN [out |-> <<"TTB: ERR">>, ok |-> TRUE]
    ELSE [out |-> << >>, ok |-> FALSE]

\* handle.join() gives Err(e); main prints the error and exits 1 when run returns it
RunErr ==
    /\ pc = "fetching" /\ fetch = "err"
    /\ LET r == RunErrResult(mini)
       IN /\ stdout' = r.out
          /\ stderr' = IF r.ok THEN stderr ELSE <<"Error: fetch failed">>
          /\ exit_code' = IF r.ok THEN ExitOk ELSE ExitError
    /\ pc' = "exited"
    /\ UNCHANGED <<mini, day_offset, upstream, now, tz, fetch, ticks, selected_date,
                   selected, table, input, kind, stage1, passes, last>>

\* handle.join() gives Ok(events) in mini mode: display_mini_timetable(all_events)
RunMini ==
    /\ pc = "fetching" /\ fetch = "ok" /\ mini
    /\ \E r \in {display_mini_timetable(upstream, now, tz)} :
          /\ selected_date' = date_naive(now, tz)
          /\ selected' = r.selected
          /\ stdout' = r.out
          /\ stderr' = IF r.panicked THEN <<"thread 'main' panicked">> ELSE stderr
          /\ exit_code' = IF r.panicked THEN ExitPanic ELSE ExitOk
    /\ pc' = "exited"
    /\ UNCHANGED <<mini, day_offset, upstream, now, tz, fetch, ticks, table, input,
                   kind, stage1, passes, last>>

\* handle.join() gives Ok(events) in full mode: the offset is parsed, the target date
\* computed from one clock reading, and display_timetable reads the clock again
RunFull ==
    /\ pc = "fetching" /\ fetch = "ok" /\ ~mini
    /\ LET offset == parse_i64(day_offset)
       IN IF ~offset.ok
          THEN /\ stderr' = <<"Error: Invalid day offset.">>
               /\ exit_code' = ExitError
               /\ UNCHANGED <<now, selected_date, selected, stdout, table>>
          ELSE \E later \in FullNows :
               /\ later >= now
               /\ now' = later
               /\ \E r \in {display_timetable(upstream, date_naive(now, tz) + offset.v,
                                               later, tz)} :
                     /\ selected_date' = date_naive(now, tz) + offset.v
                     /\ selected' = r.selected
                     /\ stdout' = r.out
                     /\ table' = r.rows
                     /\ stderr' = IF r.panicked THEN <<"thread 'main' panicked">>
                                  ELSE stderr
                     /\ exit_code' = IF r.panicked THEN ExitPanic ELSE ExitOk
    /\ pc' = "exited"
    /\ UNCHANGED <<mini, day_offset, upstream, tz, fetch, ticks, input, kind, stage1,
                   passes, last>>

Next == SpinnerTick \/ FetchOk \/ FetchErr \/ RunErr \/ RunMini \/ RunFull

Spec == Init /\ [][Next]_vars

-----------------------------------------------------------------------------
(* The status bar polls: display_mini_timetable run again and again on the  *)
(* same event list while the clock advances                                  *)

PollResult(r, t) ==
    /\ selected_date' = date_naive(t, tz)
    /\ selected' = r.selected
    /\ stdout' = r.out
    /\ stderr' = IF r.panicked THEN <<"thread 'main' panicked">> ELSE << >>
    /\ exit_code' = IF r.panicked THEN ExitPanic ELSE ExitOk

InitClock ==
    /\ mini = TRUE
    /\ day_offset = "0"
    /\ upstream \in EventLists
    /\ now \in Nows
    /\ tz \in Offsets
    /\ pc = "polling"
    /\ fetch = "ok"
    /\ ticks = 0
    /\ selected_date = 0
    /\ selected = << >>
    /\ stdout = << >>
    /\ table = << >>
    /\ stderr = << >>
    /\ exit_code = ExitOk
    /\ CompactorIdle

\* the first status line, at the initial clock reading
FirstPoll ==
    /\ pc = "polling"
    /\ pc' = "polled"
    /\ \E r \in {display_mini_timetable(upstream, now, tz)} : PollResult(r, now)
    /\ UNCHANGED <<mini, day_offset, upstream, now, tz, fetch, ticks, table, input,
                   kind, stage1, passes, last>>

\* a later status line: the clock has advanced, the event list is the same
Repoll ==
    /\ pc = "polled"
    /\ \E later \in Nows :
          /\ later > now
          /\ now' = later
          /\ \E r \in {display_mini_timetable(upstream, later, tz)} :
                PollResult(r, later)
    /\ last' = [now |-> now, out |-> stdout, polled |-> TRUE]
    /\ UNCHANGED <<mini, day_offset, upstream, tz, pc, fetch, ticks, table, input,
                   kind, stage1, passes>>

NextClock == FirstPoll \/ Repoll

SpecClock == InitClock /\ [][NextClock]_vars

-----------------------------------------------------------------------------
(* The text compactor applied to drawn strings, and again to its own output *)

TitleFragments == {
    "Practical Physics-Computing Lecture", "Practical Physics", "Physics", "Lecture",
    "Core Physics I Problem Class", "Problem Class", "II", "Grp3" }

LocationFragments == {
    "Physics Building", "Building", "Lecture", "Theatre", "Room", "Rear:", "3.21" }

\* the fragment sequences of 1..n fragments, each joined with single spaces
Phrases(fragments, n) ==
    {join(w, " ") : w \in UNION {[1..k -> fragments] : k \in 1..n}}

InitCompact ==
    /\ mini = TRUE
    /\ day_offset = "0"
    /\ upstream = << >>
    /\ now = 0
    /\ tz = 0
    /\ pc = "compact"
    /\ fetch = "ok"
    /\ ticks = 0
    /\ selected_date = 0
    /\ selected = << >>
    /\ stdout = << >>
    /\ table = << >>
    /\ stderr = << >>
    /\ exit_code = ExitOk
    /\ kind \in {"title", "location"}
    /\ input \in Phrases(IF kind = "title" THEN TitleFragments ELSE LocationFragments,
                         MaxWords)
    /\ stage1 = ""
    /\ passes = << >>
    /\ last = NoPoll

\* the string the next pass is given: the input, then the previous output
Pending == IF passes = << >> THEN input ELSE passes[Len(passes)]

CompressTitle ==
    /\ pc = "compact" /\ kind = "title" /\ Len(passes) < MaxPasses
    /\ passes' = Append(passes, compress_title(Pending))
    /\ stage1' = IF passes = << >> THEN CompoundStage(input) ELSE stage1
    /\ UNCHANGED <<mini, day_offset, upstream, now, tz, pc, fetch, ticks,
                   selected_date, selected, stdout, table, stderr, exit_code, input,
                   kind, last>>

CompressLocation ==
    /\ pc = "compact" /\ kind = "location" /\ Len(passes) < MaxPasses
    /\ passes' = Append(passes, compress_location(Pending))
    /\ UNCHANGED <<mini, day_offset, upstream, now, tz, pc, fetch, ticks,
                   selected_date, selected, stdout, table, stderr, exit_code, input,
                   kind, stage1, last>>

NextCompact == CompressTitle \/ CompressLocation

SpecCompact == InitCompact /\ [][NextCompact]_vars

-----------------------------------------------------------------------------
(* What the claims speak of, stated on the event list and the clock alone *)

StartOf(e) == Parsed(e.start)

EndOf(e) == Parsed(e.end)

Indices == 1..Len(upstream)

IsTodayEvent(e) == StartOf(e).ok /\ date_naive(StartOf(e).t, tz) = date_naive(now, tz)

ContainsNow(e) ==
    IsTodayEvent(e) /\ EndOf(e).ok /\ StartOf(e).t <= now /\ now < EndOf(e).t

StartsAfterNow(e) == IsTodayEvent(e) /\ StartOf(e).t > now

CurrentCandidates == {i \in Indices : ContainsNow(upstream[i])}

NextCandidates == {i \in Indices : StartsAfterNow(upstream[i])}

\* the members of S whose start instant is earliest
ChronoFirst(S) ==
    {i \in S : \A j \in S : StartOf(upstream[i]).t <= StartOf(upstream[j]).t}

\* the member of S that comes first in the Day Selector's order: least start
\* string, and among equal strings the one first in the input
SelectorFirst(S) ==
    CHOOSE i \in S : \A j \in S \ {i} :
        \/ cmp(upstream[i].start, upstream[j].start) < 0
        \/ cmp(upstream[i].start, upstream[j].start) = 0 /\ i < j

WellFormed == \A i \in Indices : StartOf(upstream[i]).ok /\ EndOf(upstream[i]).ok

MiniDone == pc = "exited" /\ mini /\ fetch = "ok"

FullDone == pc = "exited" /\ ~mini /\ fetch = "ok" /\ parse_i64(day_offset).ok

IsLine(out, prefix) == Len(out) = 1 /\ starts_with(out[1], prefix)

Blk == <<"TTB: BLK">>

-----------------------------------------------------------------------------
(* C1 *)

\* C1: whenever display_mini_timetable prints a status line, the line is a CUR or
\* BRD line exactly when some today-event has start <= now < end, and then the
\* current event it reports is one whose start instant is earliest among them
\* (an event starting at now counts, an event ending at now does not), with the
\* BRD line naming as next an event that starts strictly after now.
C1_CurrentIsChronologicallyFirst ==
    (MiniDone /\ exit_code = ExitOk) =>
        IF CurrentCandidates = {}
        THEN ~IsLine(stdout, "CUR ") /\ ~IsLine(stdout, "BRD ")
        ELSE \E i \in ChronoFirst(CurrentCandidates) :
                \/ stdout = <<CurLine(upstream[i], tz)>>
                \/ \E j \in NextCandidates :
                      stdout = <<BrdLine(upstream[i], upstream[j], tz)>>

-----------------------------------------------------------------------------
(* C2 *)

InBorder(i) == now >= EndOf(upstream[i]).t - BorderSeconds

\* C2: after display_mini_timetable, with CURRENT the first today-event that
\* contains now and NEXT the first today-event starting after now, both in the
\* Day Selector's order: the output is the BRD line (current end, next start,
\* next's compacted title and location) if and only if CURRENT exists, now is at
\* or past its end minus 10 minutes and NEXT exists; with CURRENT but not both of
\* the other conditions the output is the CUR line of CURRENT.
C2_BorderShape ==
    MiniDone =>
        IF CurrentCandidates = {}
        THEN ~IsLine(stdout, "BRD ")
        ELSE LET c == SelectorFirst(CurrentCandidates)
             IN IF InBorder(c) /\ NextCandidates # {}
                THEN stdout = <<BrdLine(upstream[c],
                                        upstream[SelectorFirst(NextCandidates)], tz)>>
                ELSE stdout = <<CurLine(upstream[c], tz)>>

-----------------------------------------------------------------------------
(* C3 *)

\* C3: for an event list whose timestamps all parse, the event named as next in
\* an NXT or BRD line is a today-event whose start instant is the earliest of
\* those strictly after now.
C3_NextIsChronologicallyEarliest ==
    (MiniDone /\ WellFormed) =>
        /\ IsLine(stdout, "NXT ") =>
              \E i \in ChronoFirst(NextCandidates) :
                  stdout = <<NxtLine(upstream[i], tz)>>
        /\ IsLine(stdout, "BRD ") =>
              \E i \in ChronoFirst(NextCandidates) : \E c \in CurrentCandidates :
                  stdout = <<BrdLine(upstream[c], upstream[i], tz)>>

-----------------------------------------------------------------------------
(* C4 *)

\* C4: whatever start or end strings the events carry, both display functions
\* complete and print their normal output: one status line in mini mode, the
\* header followed by the table or the no-events message in full mode.
C4_MalformedTimestampNeverAborts ==
    (MiniDone \/ FullDone) =>
        /\ exit_code = ExitOk
        /\ Len(stdout) = (IF mini THEN 1 ELSE 2)

-----------------------------------------------------------------------------
(* C5 *)

Count(list, e) == Cardinality({i \in 1..Len(list) : list[i] = e})

\* C5: after either display function has filtered and sorted, every event occurs
\* in the selected list as often as in the input if its start parses and its
\* local date is the selected date, and not at all otherwise; and the selected
\* list is sorted non-decreasing by start (the comparison of the sort).
C5_DaySelector ==
    (MiniDone \/ FullDone) =>
        /\ \A e \in Events :
              Count(selected, e) =
                  IF /\ parse_from_rfc3339(e.start).ok
                     /\ date_naive(parse_from_rfc3339(e.start).t, tz) = selected_date
                  THEN Count(upstream, e) ELSE 0
        /\ \A i \in 1..Len(selected) : selected[i] \in Events
        /\ \A i, j \in 1..Len(selected) :
              i < j => cmp(selected[i].start, selected[j].start) <= 0

\* the sort has moved the second input event in front of the first, and an event
\* of another date or with a malformed start would have been left out
C5_Witness ==
    /\ MiniDone \/ FullDone
    /\ Len(upstream) = 2 /\ Len(selected) = 2
    /\ selected[1] = upstream[2]
    /\ selected[1].start # selected[2].start

-----------------------------------------------------------------------------
(* C6 *)

\* C6: when the fetch fails, mini mode prints exactly "TTB: ERR", nothing else, and
\* the process exits with success; full mode renders nothing, reports the error
\* and exits with a non-zero code.
C6_FetchFailure ==
    (pc = "exited" /\ fetch = "err") =>
        IF mini
        THEN stdout = <<"TTB: ERR">> /\ stderr = << >> /\ exit_code = ExitOk
        ELSE /\ stdout = << >> /\ table = << >> /\ selected = << >>
             /\ stderr # << >> /\ exit_code # ExitOk

C6_Witness == pc = "exited" /\ fetch = "err" /\ mini /\ stdout = <<"TTB: ERR">>

-----------------------------------------------------------------------------
(* C7 *)

\* C7: display_mini_timetable prints exactly one status line, and that line is
\* "TTB: BLK" if and only if no today-event contains now and no today-event starts
\* after now.
C7_ExactlyOneLineBlkIffIdle ==
    MiniDone =>
        /\ Len(stdout) = 1
        /\ (stdout = Blk) <=> (CurrentCandidates = {} /\ NextCandidates = {})

-----------------------------------------------------------------------------
(* C8 *)

ExamplePhrase == "Practical Physics-Computing Lecture"

ExampleAbbreviation == "Labs-Comp Lec"

\* the compound rules whose phrase occurs in s at position i
RulesAt(s, i) ==
    {k \in 1..Len(compound_rules) :
        /\ i + Len(compound_rules[k][1]) - 1 <= Len(s)
        /\ SubSeq(s, i, i + Len(compound_rules[k][1]) - 1) = compound_rules[k][1]}

\* s from position `from` on, with every compound phrase replaced by its own
\* abbreviation in one scan from the left, the longest phrase winning where
\* several start at the same position
RECURSIVE LongestPhraseFirst(_, _)
LongestPhraseFirst(s, from) ==
    Let({i \in from..Len(s) : RulesAt(s, i) # {}}, LAMBDA hits :
        IF hits = {} THEN SubSeq(s, from, Len(s))
        ELSE Let(Min(hits), LAMBDA i :
             Let(CHOOSE k \in RulesAt(s, i) : \A m \in RulesAt(s, i) :
                     Len(compound_rules[m][1]) <= Len(compound_rules[k][1]), LAMBDA k :
                 SubSeq(s, from, i - 1) \o compound_rules[k][2]
                 \o LongestPhraseFirst(s, i + Len(compound_rules[k][1])))))

\* C8: in compress_title the title that leaves the compound stage is the input
\* with every compound phrase replaced by that phrase's own abbreviation, the
\* longest phrase first, before any atomic rule applies; so a title containing
\* "Practical Physics-Computing Lecture" keeps "Labs-Comp Lec" in the output, and
\* that phrase alone yields exactly "Labs-Comp Lec".
C8_CompoundPrecedence ==
    (pc = "compact" /\ kind = "title" /\ Len(passes) >= 1) =>
        /\ stage1 = LongestPhraseFirst(input, 1)
        /\ contains(input, ExamplePhrase) => contains(passes[1], ExampleAbbreviation)
        /\ input = ExamplePhrase => passes[1] = ExampleAbbreviation

\* the example phrase next to a word the atomic rules abbreviate
C8_Witness ==
    /\ pc = "compact" /\ kind = "title" /\ Len(passes) >= 1
    /\ input = "Physics Practical Physics-Computing Lecture"
    /\ passes[1] = "P Labs-Comp Lec"

-----------------------------------------------------------------------------
(* C9 *)

\* C9: the compactor applied to a string it has produced returns that string
\* unchanged: compress(compress(t)) = compress(t) for every input t.
C9_Idempotent ==
    (pc = "compact" /\ Len(passes) >= 2) => passes[2] = passes[1]

-----------------------------------------------------------------------------
(* C10 *)

\* C10: for a fixed event list, if display_mini_timetable printed "TTB: BLK" at
\* one instant, it prints "TTB: BLK" at every later instant of the same local day.
C10_IdleIsAbsorbing ==
    (/\ pc = "polled" /\ last.polled /\ last.out = Blk
     /\ date_naive(last.now, tz) = date_naive(now, tz)) => stdout = Blk

\* idle twice on the same day although the list holds an event of that day
C10_Witness ==
    /\ pc = "polled" /\ last.polled /\ last.out = Blk /\ stdout = Blk
    /\ date_naive(last.now, tz) = date_naive(now, tz)
    /\ Len(selected) > 0

====
